---- MODULE Spec2Model ----
(***************************************************************************)
(* Connection resolution, bulk load, backup and table reconciliation of    *)
(* the provider scripts:                                                   *)
(*   functions_provider_utils.py         get_connection_string,            *)
(*                                       execute_query, backup_table       *)
(*   script_oon_monthly.py               insert_data_to_sql                *)
(*   script_provider_supervisor_table_update.py   update_table             *)
(*                                                                         *)
(* Three programs are modelled, each with its own specification:           *)
(*   SpecResolve  one call of get_connection_string                        *)
(*   SpecLoad     one call of insert_data_to_sql                           *)
(*   Spec         update_table, run up to MaxRuns times in succession      *)
(*                                                                         *)
(* Text is a sequence of one-character strings, so that .lower(), the      *)
(* f-string formatting of SQL and the database's reading of that SQL are   *)
(* computed, not assumed.  Statements run through SQLAlchemy 1.x           *)
(* connections, which commit each successful DML statement on their own    *)
(* (the raw-string connection.execute(query) of fetch_data_from_SQL is 1.x *)
(* usage); a failing statement changes nothing.                            *)
(***************************************************************************)
EXTENDS Integers, Sequences, FiniteSets, TLC

VARIABLES
    \* ---- get_connection_string ----
    db_config,      \* the profile: a function from the keys present to text
    rpc,            \* position in get_connection_string
    probed,         \* methods whose try-block was entered, in order
    errlog,         \* logger.error entries of the call, in order
    result,         \* what the call returned
    raised,         \* the exception the call raised
    \* ---- insert_data_to_sql ----
    data_tuples,    \* data.to_dict(orient='records')
    batch_size,
    batch_start,    \* the loop variable of range(0, len, batch_size)
    inserted_rows,
    lpc,            \* position in insert_data_to_sql
    connections,    \* engine.connect() calls made
    executed,       \* the batches handed to connection.execute, in order
    load_table,     \* rows committed to the target table of the load
    progress,       \* the totals logged after each batch
    load_error,     \* the exception insert_data_to_sql raised
    \* ---- update_table ----
    data_df,        \* the rows fetched from SharePoint, in file order
    table,          \* the production table
    backup,         \* the backup table
    pc,             \* position in update_table
    idx,            \* rows of data_df the loop has finished
    stmts,          \* statements handed to execute_query, in order
    log,            \* logger entries of update_table and backup_table
    run,            \* which run of update_table this is
    table0,         \* the production table when the run started
    backup0,        \* the backup table when the run started
    deleted         \* keys of the rows the run's delete statement removed

resolveVars == <<db_config, rpc, probed, errlog, result, raised>>
loadVars == <<data_tuples, batch_size, batch_start, inserted_rows, lpc,
              connections, executed, load_table, progress, load_error>>
syncVars == <<data_df, table, backup, pc, idx, stmts, log, run, table0,
              backup0, deleted>>
vars == <<resolveVars, loadVars, syncVars>>

NoValue == [kind |-> "none"]

\* ------------------------------------------------------------------
\* Text
\* ------------------------------------------------------------------

\* str.lower() on one character
LowerChar(c) ==
    CASE c = "Y" -> "y" [] c = "E" -> "e" [] c = "S" -> "s"
      [] c = "N" -> "n" [] c = "O" -> "o" [] c = "D" -> "d"
      [] c = "A" -> "a" [] c = "B" -> "b" [] c = "C" -> "c"
      [] OTHER -> c

\* str.lower()
Lower(s) == [i \in 1..Len(s) |-> LowerChar(s[i])]

\* dict.get(key, default)
Get(cfg, key, default) == IF key \in DOMAIN cfg THEN cfg[key] ELSE default

\* ------------------------------------------------------------------
\* get_connection_string (functions_provider_utils.py 60-94)
\* ------------------------------------------------------------------

TxtNo == <<"n", "o">>
TxtYes == <<"y", "e", "s">>

\* The profiles tried: driver_conn, sso and server may be absent;
\* database, user and password are always given.
DriverConnValues == {<<"n", "o">>, <<"N", "O">>, <<"D", "S", "N">>}
SsoValues == {<<"y", "e", "s">>, <<"Y", "e", "s">>, <<"n", "o">>,
              <<"N", "o">>, <<"x">>}
ServerValues == {<<"s", "r", "v">>}

BaseConfig == [k \in {"database", "user", "password"} |->
                 CASE k = "database" -> <<"d", "b">>
                   [] k = "user" -> <<"u">>
                   [] k = "password" -> <<"p", "w">>]

\* cfg with key k bound to v
With(cfg, k, v) == [x \in DOMAIN cfg \cup {k} |-> IF x = k THEN v ELSE cfg[x]]

OptionalKey(cfgs, k, values) ==
    cfgs \cup {With(c, k, v) : c \in cfgs, v \in values}

Configs ==
    OptionalKey(OptionalKey(OptionalKey({BaseConfig},
        "driver_conn", DriverConnValues), "sso", SsoValues),
        "server", ServerValues)

Methods == <<"driver", "sso", "basic">>

\* The condition of the if-statement guarding each method's try-block.
MethodEnabledBasicAlways(cfg, m) ==
    CASE m = "driver" -> Lower(Get(cfg, "driver_conn", << >>)) # TxtNo
      [] m = "sso" -> Lower(Get(cfg, "sso", << >>)) = TxtYes
      [] m = "basic" -> TRUE
MethodEnabled(cfg, m) ==
    CASE m = "driver" -> Lower(Get(cfg, "driver_conn", << >>)) # TxtNo
      [] m = "sso" -> Lower(Get(cfg, "sso", << >>)) = TxtYes
      [] m = "basic" -> Lower(Get(cfg, "sso", << >>)) = TxtNo

\* The keys each try-block reads with db_config[...]: a missing one is a
\* KeyError inside the try.
MethodKeys(m) ==
    CASE m = "driver" -> {"driver_conn"}
      [] m = "sso" -> {"server", "database"}
      [] m = "basic" -> {"user", "password", "server", "database"}

\* The f-string each try-block builds.
ConnStrSsoAsBasic(cfg, m) ==
    IF m = "driver" THEN <<"mssql+pyodbc://@">> \o cfg["driver_conn"]
    ELSE <<"mssql+pyodbc://">> \o cfg["user"] \o <<":">>
         \o cfg["password"] \o <<"@">> \o cfg["server"]
         \o <<"/">> \o cfg["database"] \o <<"?driver=SQL+Server">>
ConnStr(cfg, m) ==
    CASE m = "driver" -> <<"mssql+pyodbc://@">> \o cfg["driver_conn"]
      [] m = "sso" -> <<"mssql+pyodbc://">> \o cfg["server"] \o <<"/">>
                      \o cfg["database"]
                      \o <<"?trusted_connection=yes&driver=SQL+Server">>
      [] m = "basic" -> <<"mssql+pyodbc://">> \o cfg["user"] \o <<":">>
                        \o cfg["password"] \o <<"@">> \o cfg["server"]
                        \o <<"/">> \o cfg["database"]
                        \o <<"?driver=SQL+Server">>

\* Where control goes when a method was skipped or its probe failed.
AfterMethodGivesUp(m) == "raise"
AfterMethod(m) ==
    CASE m = "driver" -> "sso"
      [] m = "sso" -> "basic"
      [] m = "basic" -> "raise"

\* logger.error(f"Failed to use ...: {e}")
FailureEntry(m, reason) == [method |-> m, reason |-> reason]

\* One if-block of get_connection_string: skipped when its condition is
\* false; otherwise the descriptor is built and probed by connect/close.
\* The probe's outcome is the environment's; a missing key always fails.
Attempt(m) ==
    /\ rpc = m
    /\ IF ~MethodEnabled(db_config, m)
       THEN /\ rpc' = AfterMethod(m)
            /\ UNCHANGED <<probed, errlog, result>>
       ELSE /\ probed' = Append(probed, m)
            /\ \/ /\ MethodKeys(m) \subseteq DOMAIN db_config
                  /\ result' = [kind |-> "conn", method |-> m,
                                conn_str |-> ConnStr(db_config, m)]
                  /\ rpc' = "returned"
                  /\ UNCHANGED errlog
               \/ /\ MethodKeys(m) \subseteq DOMAIN db_config
                  /\ errlog' = Append(errlog, FailureEntry(m, "OperationalError"))
                  /\ rpc' = AfterMethod(m)
                  /\ UNCHANGED result
               \/ /\ ~(MethodKeys(m) \subseteq DOMAIN db_config)
                  /\ errlog' = Append(errlog, FailureEntry(m, "KeyError"))
                  /\ rpc' = AfterMethod(m)
                  /\ UNCHANGED result
    /\ UNCHANGED <<db_config, raised>>

TryDriver == Attempt("driver") /\ UNCHANGED <<loadVars, syncVars>>
TrySSO == Attempt("sso") /\ UNCHANGED <<loadVars, syncVars>>
TryBasic == Attempt("basic") /\ UNCHANGED <<loadVars, syncVars>>

\* raise ValueError("No valid connection method could be established.")
NoValidMethod ==
    [type |-> "ValueError",
     args |-> <<"No valid connection method could be established.">>]

RaiseNoMethod ==
    /\ rpc = "raise"
    /\ raised' = NoValidMethod
    /\ rpc' = "raised"
    /\ UNCHANGED <<db_config, probed, errlog, result>>
    /\ UNCHANGED <<loadVars, syncVars>>

ResolveIdle ==
    /\ db_config = BaseConfig
    /\ rpc = "idle"
    /\ probed = << >>
    /\ errlog = << >>
    /\ result = NoValue
    /\ raised = NoValue

InitResolveVars ==
    /\ db_config \in Configs
    /\ rpc = "driver"
    /\ probed = << >>
    /\ errlog = << >>
    /\ result = NoValue
    /\ raised = NoValue

NextResolve == TryDriver \/ TrySSO \/ TryBasic \/ RaiseNoMethod

\* ------------------------------------------------------------------
\* insert_data_to_sql (script_oon_monthly.py 85-111)
\* ------------------------------------------------------------------

MaxLen == 5
MaxBatch == 3
RowValues == {"r1", "r2"}

RECURSIVE SeqsUpTo(_, _)
\* all sequences over S of length at most n
SeqsUpTo(S, n) ==
    IF n = 0 THEN {<< >>}
    ELSE LET shorter == SeqsUpTo(S, n - 1)
         IN shorter \cup {Append(q, x) : q \in {r \in shorter : Len(r) = n - 1},
                                         x \in S}

Min(a, b) == IF a <= b THEN a ELSE b

\* data_tuples[batch_start:batch_end], Python's 0-based half-open slice
SliceOffByOne(seq, from, to) == SubSeq(seq, from + 1, Min(to + 1, Len(seq)))
Slice(seq, from, to) == SubSeq(seq, from + 1, Min(to, Len(seq)))

\* the exception connection.execute raises for a statement: SQLAlchemy's
\* StatementError holds the statement and the parameters it was given
StatementError(statement, params) ==
    [type |-> "SQLAlchemyError", statement |-> statement, params |-> params]

\* with engine.connect() as connection
LoadConnect ==
    /\ lpc = "connect"
    /\ \/ /\ connections' = connections + 1
          /\ lpc' = "loop"
          /\ UNCHANGED load_error
       \/ /\ load_error' = [type |-> "SQLAlchemyError", statement |-> "connect",
                            params |-> << >>]
          /\ lpc' = "raised"
          /\ UNCHANGED connections
    /\ UNCHANGED <<data_tuples, batch_size, batch_start, inserted_rows,
                   executed, load_table, progress>>
    /\ UNCHANGED <<resolveVars, syncVars>>

\* LoadBatch with a handler that logs the error and goes on to the next batch
LoadBatchContinues ==
    /\ lpc = "loop"
    /\ batch_start < Len(data_tuples)
    /\ LET batch_end == batch_start + batch_size
           batch == Slice(data_tuples, batch_start, batch_end)
       IN /\ executed' = Append(executed, batch)
          /\ \/ /\ load_table' = load_table \o batch
                /\ inserted_rows' = inserted_rows + Len(batch)
                /\ progress' = Append(progress, inserted_rows + Len(batch))
                /\ batch_start' = batch_start + batch_size
                /\ UNCHANGED <<lpc, load_error>>
             \/ /\ load_error' = StatementError("INSERT", batch)
                /\ lpc' = IF batch_start + batch_size < Len(data_tuples)
                          THEN "loop" ELSE "raised"
                /\ batch_start' = batch_start + batch_size
                /\ UNCHANGED <<load_table, inserted_rows, progress>>
    /\ UNCHANGED <<data_tuples, batch_size, connections>>
    /\ UNCHANGED <<resolveVars, syncVars>>

\* one iteration of: for batch_start in range(0, len(data_tuples), batch_size).
\* The statement either runs and is committed, or fails; the except clause
\* logs the error and re-raises it as it is.
LoadBatch ==
    /\ lpc = "loop"
    /\ batch_start < Len(data_tuples)
    /\ LET batch_end == batch_start + batch_size
           batch == Slice(data_tuples, batch_start, batch_end)
       IN /\ executed' = Append(executed, batch)
          /\ \/ /\ load_table' = load_table \o batch
                /\ inserted_rows' = inserted_rows + Len(batch)
                /\ progress' = Append(progress, inserted_rows + Len(batch))
                /\ batch_start' = batch_start + batch_size
                /\ UNCHANGED <<lpc, load_error>>
             \/ /\ load_error' = StatementError("INSERT", batch)
                /\ lpc' = "raised"
                /\ UNCHANGED <<load_table, inserted_rows, progress, batch_start>>
    /\ UNCHANGED <<data_tuples, batch_size, connections>>
    /\ UNCHANGED <<resolveVars, syncVars>>

\* the range is exhausted: the with-block ends and the total is logged
LoadFinish ==
    /\ lpc = "loop"
    /\ batch_start >= Len(data_tuples)
    /\ lpc' = "done"
    /\ UNCHANGED <<data_tuples, batch_size, batch_start, inserted_rows,
                   connections, executed, load_table, progress, load_error>>
    /\ UNCHANGED <<resolveVars, syncVars>>

LoadIdle ==
    /\ data_tuples = << >>
    /\ batch_size = 1
    /\ batch_start = 0
    /\ inserted_rows = 0
    /\ lpc = "idle"
    /\ connections = 0
    /\ executed = << >>
    /\ load_table = << >>
    /\ progress = << >>
    /\ load_error = NoValue

InitLoadVars ==
    /\ data_tuples \in SeqsUpTo(RowValues, MaxLen)
    /\ batch_size \in 1..MaxBatch
    /\ batch_start = 0
    /\ inserted_rows = 0
    /\ lpc = "connect"
    /\ connections = 0
    /\ executed = << >>
    /\ load_table = << >>
    /\ progress = << >>
    /\ load_error = NoValue

NextLoad == LoadConnect \/ LoadBatch \/ LoadFinish

\* ------------------------------------------------------------------
\* SQL text: the id list of the delete statement
\* (script_provider_supervisor_table_update.py 91-94) and the database's
\* reading of it
\* ------------------------------------------------------------------

Quote == "'"
Comma == ","
Blank == " "

RECURSIVE JoinQuoted(_)
\* ','.join(f"'{id}'" for id in ids), ids in the order the set is iterated
JoinQuoted(ids) ==
    IF ids = << >> THEN << >>
    ELSE <<Quote>> \o Head(ids) \o <<Quote>>
         \o (IF Len(ids) = 1 THEN << >> ELSE <<Comma>> \o JoinQuoted(Tail(ids)))

SyntaxError == [ok |-> FALSE, values |-> {}]

RECURSIVE ParseList(_, _, _, _, _)
\* The database reading the text between "NOT IN (" and ")": a comma
\* separated list of string literals, '' inside a literal standing for one
\* quote, blanks allowed around the literals.  An empty list, an
\* unterminated literal or other text outside a literal is a syntax error.
\* state: "start" before a literal, "in" inside one, "after" behind one.
ParseList(text, i, state, cur, acc) ==
    IF state = "start"
    THEN IF i <= Len(text) /\ text[i] = Blank
         THEN ParseList(text, i + 1, "start", << >>, acc)
         ELSE IF i <= Len(text) /\ text[i] = Quote
         THEN ParseList(text, i + 1, "in", << >>, acc)
         ELSE SyntaxError
    ELSE IF state = "in"
    THEN IF i > Len(text) THEN SyntaxError
         ELSE IF text[i] # Quote
         THEN ParseList(text, i + 1, "in", Append(cur, text[i]), acc)
         ELSE IF i + 1 <= Len(text) /\ text[i + 1] = Quote
         THEN ParseList(text, i + 2, "in", Append(cur, Quote), acc)
         ELSE ParseList(text, i + 1, "after", << >>, acc \cup {cur})
    ELSE IF i > Len(text) THEN [ok |-> TRUE, values |-> acc]
         ELSE IF text[i] = Blank
         THEN ParseList(text, i + 1, "after", << >>, acc)
         ELSE IF text[i] = Comma
         THEN ParseList(text, i + 1, "start", << >>, acc)
         ELSE SyntaxError

ParseIdList(text) == ParseList(text, 1, "start", << >>, {})

\* the orders in which a set may be iterated
Orderings(S) ==
    {f \in [1..Cardinality(S) -> S] : \A i, j \in DOMAIN f : f[i] = f[j] => i = j}

\* ------------------------------------------------------------------
\* The tables and the statements update_table runs against them
\* ------------------------------------------------------------------

MaxRuns == 2

\* US Domain IDs.  An id is whatever text the file holds in the column:
\* next to the plain ids A, B and D there is the id A','B, which holds
\* quotes and a comma.  The UPDATE and the INSERT bind ids as parameters;
\* JoinQuoted writes them into the text of the DELETE as they are.
\* The file may hold A, B and A','B; the table may hold B, D and A','B.
QuotedId == <<"A", Quote, Comma, Quote, "B">>
SnapshotKeys == {<<"A">>, <<"B">>, QuotedId}
TableKeys == {<<"B">>, <<"D">>, QuotedId}
AssociateNames == {"n1"}
SupervisorNames == {"s1", "s2"}

Row(id, associate, supervisor) ==
    [id |-> id, associate_name |-> associate, supervisor_name |-> supervisor]

RowsOver(keys) ==
    {Row(k, a, v) : k \in keys, a \in AssociateNames, v \in SupervisorNames}

UniqueKeys(rows) == \A r1, r2 \in rows : r1.id = r2.id => r1 = r2

\* tables whose key column identifies the row
TablesOver(keys) == {t \in SUBSET RowsOver(keys) : UniqueKeys(t)}

\* files whose key column has no duplicates, rows in any order
Snapshots ==
    {q \in SeqsUpTo(RowsOver(SnapshotKeys), Cardinality(SnapshotKeys)) :
        \A i, j \in 1..Len(q) : q[i].id = q[j].id => i = j}

\* what the backup table may hold from an earlier generation
StaleBackups == {{}, {Row(<<"B">>, "n1", "s2"), Row(<<"Z">>, "n1", "s1")}}

KeysOf(rows) == {r.id : r \in rows}

\* set(data_df['US Domain ID'].tolist())
CsvIds(df) == {df[i].id : i \in 1..Len(df)}

\* a rowcount that counts only the rows whose values change
RowcountChangedOnly(tbl, row) ==
    Cardinality({r \in tbl : r.id = row.id /\ r # row})

\* result.rowcount of the UPDATE: the rows its WHERE clause matched,
\* whether or not their values change
Rowcount(tbl, row) == Cardinality({r \in tbl : r.id = row.id})

\* UPDATE ... SET [Associate Name], [Supervisor Name] WHERE [US Domain ID] = :id
ApplyUpdate(tbl, row) ==
    {IF r.id = row.id THEN Row(r.id, row.associate_name, row.supervisor_name)
     ELSE r : r \in tbl}

\* INSERT INTO ... VALUES (:us_domain_id, :associate_name, :supervisor_name)
ApplyInsert(tbl, row) ==
    tbl \cup {Row(row.id, row.associate_name, row.supervisor_name)}

\* DELETE FROM ... WHERE [US Domain ID] NOT IN (values)
ApplyDelete(tbl, values) == {r \in tbl : r.id \in values}

\* a clear that removes nothing
ApplyClearNothing(tbl) == tbl

\* DELETE FROM <backup table>
ApplyClear(tbl) == {}

\* INSERT INTO <backup table> SELECT * FROM <source table>
ApplyCopy(bkp, src) == bkp \cup src

Stmt(op, target, arg) == [op |-> op, target |-> target, arg |-> arg]
LogEntry(level, msg, key) == [level |-> level, msg |-> msg, key |-> key]

\* the for-loop over data_df.iterrows() has rows left
RowsLeft == idx < Len(data_df)

\* ------------------------------------------------------------------
\* update_table (script_provider_supervisor_table_update.py 25-103)
\* Every execute_query either runs its statement, which is then committed,
\* or raises; what raises inside update_table reaches its except clause,
\* which logs the error and ends the run.
\* ------------------------------------------------------------------

\* Connect followed at once by the loop, with neither backup step
ConnectSkipsBackup ==
    /\ pc = "connect"
    /\ \/ /\ pc' = "loop"
          /\ UNCHANGED log
       \/ /\ pc' = "error"
          /\ log' = Append(log, LogEntry("error", "run failed", << >>))
    /\ UNCHANGED <<data_df, table, backup, idx, stmts, run, table0, backup0,
                   deleted>>
    /\ UNCHANGED <<resolveVars, loadVars>>

\* conn_str = get_connection_string(db_config)
Connect ==
    /\ pc = "connect"
    /\ \/ /\ pc' = "clear"
          /\ UNCHANGED log
       \/ /\ pc' = "error"
          /\ log' = Append(log, LogEntry("error", "run failed", << >>))
    /\ UNCHANGED <<data_df, table, backup, idx, stmts, run, table0, backup0,
                   deleted>>
    /\ UNCHANGED <<resolveVars, loadVars>>

\* ClearBackup with a failure that is logged and passed over
ClearBackupContinues ==
    /\ pc = "clear"
    /\ stmts' = Append(stmts, Stmt("DELETE", "backup", << >>))
    /\ \/ /\ backup' = ApplyClear(backup)
          /\ log' = Append(log, LogEntry("info", "cleared backup", << >>))
       \/ /\ log' = Append(log, LogEntry("error", "query failed", << >>))
          /\ UNCHANGED backup
    /\ pc' = "backup"
    /\ UNCHANGED <<data_df, table, idx, run, table0, backup0, deleted>>
    /\ UNCHANGED <<resolveVars, loadVars>>

\* execute_query(conn_str, "DELETE FROM <backup table>")
ClearBackup ==
    /\ pc = "clear"
    /\ stmts' = Append(stmts, Stmt("DELETE", "backup", << >>))
    /\ \/ /\ backup' = ApplyClear(backup)
          /\ log' = Append(log, LogEntry("info", "cleared backup", << >>))
          /\ pc' = "backup"
       \/ /\ log' = Append(Append(log,
                        LogEntry("error", "query failed", << >>)),
                        LogEntry("error", "run failed", << >>))
          /\ pc' = "error"
          /\ UNCHANGED backup
    /\ UNCHANGED <<data_df, table, idx, run, table0, backup0, deleted>>
    /\ UNCHANGED <<resolveVars, loadVars>>

\* backup_table(conn_str, source, backup): the copy runs inside a try whose
\* except clause logs the error and returns
BackupTable ==
    /\ pc = "backup"
    /\ stmts' = Append(stmts, Stmt("INSERT SELECT", "backup", << >>))
    /\ \/ /\ backup' = ApplyCopy(backup, table)
          /\ log' = Append(log, LogEntry("info", "backup completed", << >>))
       \/ /\ log' = Append(Append(log,
                        LogEntry("error", "query failed", << >>)),
                        LogEntry("error", "backup failed", << >>))
          /\ UNCHANGED backup
    /\ pc' = "loop"
    /\ UNCHANGED <<data_df, table, idx, run, table0, backup0, deleted>>
    /\ UNCHANGED <<resolveVars, loadVars>>

\* ReconcileRow with a failure that is logged and passed over
ReconcileRowContinues ==
    /\ pc = "loop"
    /\ RowsLeft
    /\ LET row == data_df[idx + 1]
           update == Stmt("UPDATE", "table", row.id)
           insert == Stmt("INSERT", "table", row.id)
       IN \/ /\ stmts' = Append(stmts, update)
             /\ log' = Append(log, LogEntry("error", "query failed", row.id))
             /\ UNCHANGED table
          \/ /\ Rowcount(table, row) > 0
             /\ stmts' = Append(stmts, update)
             /\ table' = ApplyUpdate(table, row)
             /\ log' = Append(log, LogEntry("info", "updated", row.id))
          \/ /\ ~(Rowcount(table, row) > 0)
             /\ stmts' = stmts \o <<update, insert>>
             /\ table' = ApplyInsert(ApplyUpdate(table, row), row)
             /\ log' = Append(log, LogEntry("info", "inserted", row.id))
    /\ idx' = idx + 1
    /\ UNCHANGED <<data_df, backup, pc, run, table0, backup0, deleted>>
    /\ UNCHANGED <<resolveVars, loadVars>>

\* one iteration of the loop over the rows: the UPDATE, and the INSERT
\* when the UPDATE matched no row
ReconcileRow ==
    /\ pc = "loop"
    /\ RowsLeft
    /\ LET row == data_df[idx + 1]
           update == Stmt("UPDATE", "table", row.id)
           insert == Stmt("INSERT", "table", row.id)
           failed == <<LogEntry("error", "query failed", row.id),
                       LogEntry("error", "run failed", << >>)>>
       IN \/ /\ stmts' = Append(stmts, update)
             /\ log' = log \o failed
             /\ pc' = "error"
             /\ UNCHANGED <<table, idx>>
          \/ /\ Rowcount(table, row) > 0
             /\ stmts' = Append(stmts, update)
             /\ table' = ApplyUpdate(table, row)
             /\ log' = Append(log, LogEntry("info", "updated", row.id))
             /\ idx' = idx + 1
             /\ UNCHANGED pc
          \/ /\ ~(Rowcount(table, row) > 0)
             /\ stmts' = stmts \o <<update, insert>>
             /\ table' = ApplyInsert(ApplyUpdate(table, row), row)
             /\ log' = Append(log, LogEntry("info", "inserted", row.id))
             /\ idx' = idx + 1
             /\ UNCHANGED pc
          \/ /\ ~(Rowcount(table, row) > 0)
             /\ stmts' = stmts \o <<update, insert>>
             /\ table' = ApplyUpdate(table, row)
             /\ log' = log \o failed
             /\ pc' = "error"
             /\ UNCHANGED idx
    /\ UNCHANGED <<data_df, backup, run, table0, backup0, deleted>>
    /\ UNCHANGED <<resolveVars, loadVars>>

\* the delete statement after the loop: the ids are written into the SQL
\* text in the order the set csv_ids is iterated, and the database reads
\* them back from that text
DeletePass ==
    /\ pc = "loop"
    /\ ~RowsLeft
    /\ \E order \in Orderings(CsvIds(data_df)) :
          LET text == JoinQuoted(order)
              parsed == ParseIdList(text)
              failed == <<LogEntry("error", "query failed", << >>),
                          LogEntry("error", "run failed", << >>)>>
          IN /\ stmts' = Append(stmts, Stmt("DELETE", "table", text))
             /\ \/ /\ parsed.ok
                   /\ table' = ApplyDelete(table, parsed.values)
                   /\ deleted' = KeysOf(table) \ KeysOf(ApplyDelete(table, parsed.values))
                   /\ log' = Append(Append(log,
                                LogEntry("info", "deleted", << >>)),
                                LogEntry("info", "complete", << >>))
                   /\ pc' = "done"
                \/ /\ log' = log \o failed
                   /\ pc' = "error"
                   /\ UNCHANGED <<table, deleted>>
    /\ UNCHANGED <<data_df, backup, idx, run, table0, backup0>>
    /\ UNCHANGED <<resolveVars, loadVars>>

\* the script is started again with the same file after a run that
\* completed (a run after a failed one starts like a first run, from a
\* table and a backup table that Init already covers)
RunAgain ==
    /\ pc = "done"
    /\ run < MaxRuns
    /\ run' = run + 1
    /\ pc' = "connect"
    /\ idx' = 0
    /\ stmts' = << >>
    /\ log' = << >>
    /\ table0' = table
    /\ backup0' = backup
    /\ deleted' = {}
    /\ UNCHANGED <<data_df, table, backup>>
    /\ UNCHANGED <<resolveVars, loadVars>>

SyncIdle ==
    /\ data_df = << >>
    /\ table = {}
    /\ backup = {}
    /\ pc = "idle"
    /\ idx = 0
    /\ stmts = << >>
    /\ log = << >>
    /\ run = 1
    /\ table0 = {}
    /\ backup0 = {}
    /\ deleted = {}

InitSyncVars ==
    /\ data_df \in Snapshots
    /\ table \in TablesOver(TableKeys)
    /\ backup \in StaleBackups
    /\ pc = "connect"
    /\ idx = 0
    /\ stmts = << >>
    /\ log = << >>
    /\ run = 1
    /\ table0 = table
    /\ backup0 = backup
    /\ deleted = {}

\* ------------------------------------------------------------------
\* Specifications
\* ------------------------------------------------------------------

InitResolve == InitResolveVars /\ LoadIdle /\ SyncIdle
SpecResolve == InitResolve /\ [][NextResolve]_vars

InitLoad == ResolveIdle /\ InitLoadVars /\ SyncIdle
SpecLoad == InitLoad /\ [][NextLoad]_vars

Init == ResolveIdle /\ LoadIdle /\ InitSyncVars
Next == Connect \/ ClearBackup \/ BackupTable \/ ReconcileRow \/ DeletePass
        \/ RunAgain
Spec == Init /\ [][Next]_vars

\* ------------------------------------------------------------------
\* Properties of update_table (checked under Spec)
\* ------------------------------------------------------------------

\* keys of the log entries carrying msg, in log order
LoggedKeys(msg) ==
    LET hits == SelectSeq(log, LAMBDA e : e.msg = msg)
    IN [i \in 1..Len(hits) |-> hits[i].key]

Range(q) == {q[i] : i \in 1..Len(q)}

InsertedKeys == Range(LoggedKeys("inserted"))
UpdatedKeys == Range(LoggedKeys("updated"))

SnapshotIds == [i \in 1..Len(data_df) |-> data_df[i].id]

\* C1: when a run completes, the production table's key set is the
\* file's key set and every row carries the file's values for its key.
\* It fails for a file that holds the id A','B: the DELETE reads
\* NOT IN ('A','B'), which lists the ids A and B, so the completed run
\* has removed the row of A','B and has spared a row of B that the file
\* does not hold.
C1_TableEqualsSnapshot ==
    pc = "done" =>
        /\ KeysOf(table) = CsvIds(data_df)
        /\ \A r \in table : \E i \in 1..Len(data_df) :
              /\ data_df[i].id = r.id
              /\ data_df[i].associate_name = r.associate_name
              /\ data_df[i].supervisor_name = r.supervisor_name

\* C2: a completed run inserted exactly the file's keys that the table
\* lacked, updated exactly those it had, and deleted exactly the table's
\* keys that the file lacks.  It fails with C1: the DELETE removes the
\* file's key A','B and spares the table's keys A and B when the file
\* lacks them.
C2_DiffIsExact ==
    pc = "done" =>
        /\ InsertedKeys = CsvIds(data_df) \ KeysOf(table0)
        /\ UpdatedKeys = CsvIds(data_df) \cap KeysOf(table0)
        /\ deleted = KeysOf(table0) \ CsvIds(data_df)

\* C3: the delete statement on the production table is the last statement
\* of its run, issued when the loop has finished every row and after the
\* UPDATE of every row; it removes no key of the file, so every key of the
\* file, inserted in this run or not, is in the table when the run is done.
\* The order holds; the second part fails with C1: the row of A','B,
\* inserted by the loop, is removed by the DELETE of the same run.
C3_DeleteLastAndSparesSnapshot ==
    /\ \A i \in 1..Len(stmts) :
          (stmts[i].op = "DELETE" /\ stmts[i].target = "table") =>
              /\ i = Len(stmts)
              /\ idx = Len(data_df)
              /\ \A k \in 1..Len(data_df) : \E j \in 1..(i - 1) :
                    stmts[j] = Stmt("UPDATE", "table", data_df[k].id)
    /\ deleted \cap CsvIds(data_df) = {}
    /\ pc = "done" => CsvIds(data_df) \subseteq KeysOf(table)

\* C4: the second of two runs in succession with the same file inserts,
\* updates and deletes nothing.  It fails with C1: the row of A','B that
\* the first run removed is inserted and removed again by the second.
\* The second run also reports every row it finds in the table as updated.
C4_SecondRunDoesNothing ==
    (run = 2 /\ pc = "done") =>
        /\ InsertedKeys = {}
        /\ UpdatedKeys = {}
        /\ deleted = {}

BackupCompleted == \E i \in 1..Len(log) : log[i].msg = "backup completed"

\* C10: right after the clear and the copy have both run, the backup table
\* holds exactly the rows of the production table, as many as it has, and
\* nothing of what the backup table held before.
C10_BackupEqualsSource ==
    (pc = "loop" /\ idx = 0 /\ BackupCompleted) =>
        /\ backup = table
        /\ Cardinality(backup) = Cardinality(table)
        /\ \A r \in backup0 : r \notin table => r \notin backup

C10_Witness ==
    /\ pc = "loop"
    /\ idx = 0
    /\ BackupCompleted
    /\ table # {}
    /\ \E r \in backup0 : r \notin table
    /\ backup = table

\* ------------------------------------------------------------------
\* Properties of get_connection_string (checked under SpecResolve)
\* ------------------------------------------------------------------

MethodPos(m) == CASE m = "driver" -> 1 [] m = "sso" -> 2 [] m = "basic" -> 3

FailedMethods == [i \in 1..Len(errlog) |-> errlog[i].method]

FlagOf(key) == Lower(Get(db_config, key, << >>))

\* C5: methods are probed in the order driver, sso, basic, each at most
\* once; no method is probed after a probe succeeded; the call returns the
\* descriptor of the method whose probe succeeded, every earlier probe
\* having failed and been logged.  With a failing driver probe and a
\* succeeding sso probe it returns the sso descriptor after one logged
\* failure and username+password is not probed.
C5_FirstSuccessWins ==
    /\ \A i, j \in 1..Len(probed) :
          i < j => MethodPos(probed[i]) < MethodPos(probed[j])
    /\ rpc # "returned" => (result = NoValue /\ FailedMethods = probed)
    /\ rpc = "returned" =>
          /\ probed # << >>
          /\ result.method = probed[Len(probed)]
          /\ FailedMethods = SubSeq(probed, 1, Len(probed) - 1)
          /\ result.method = "driver" =>
                result.conn_str = <<"mssql+pyodbc://@">> \o db_config["driver_conn"]
          /\ result.method = "sso" =>
                result.conn_str =
                    <<"mssql+pyodbc://">> \o db_config["server"] \o <<"/">>
                    \o db_config["database"]
                    \o <<"?trusted_connection=yes&driver=SQL+Server">>
          /\ result.method = "basic" =>
                result.conn_str =
                    <<"mssql+pyodbc://">> \o db_config["user"] \o <<":">>
                    \o db_config["password"] \o <<"@">> \o db_config["server"]
                    \o <<"/">> \o db_config["database"]
                    \o <<"?driver=SQL+Server">>
          /\ (result.method = "sso" /\ "driver" \in Range(probed)) =>
                /\ Len(errlog) = 1
                /\ "basic" \notin Range(probed)

C5_Witness ==
    /\ rpc = "returned"
    /\ probed = <<"driver", "sso">>
    /\ FailedMethods = <<"driver">>
    /\ result.method = "sso"

\* the (method, reason) entries an exception carries
CarriedFailures(exc) ==
    IF "failures" \in DOMAIN exc THEN exc.failures ELSE << >>

ConfiguredMethods == {m \in Range(Methods) : MethodEnabled(db_config, m)}

\* C6 as stated: the call fails only after every configured method was
\* attempted and failed, and the exception raised carries one
\* (method, reason) entry per attempted method, in the order of the attempts.
C6_ErrorCarriesFailures ==
    rpc = "raised" =>
        /\ ConfiguredMethods \subseteq Range(probed)
        /\ FailedMethods = probed
        /\ CarriedFailures(raised) = errlog

\* C6: the call fails only after every configured method was attempted and
\* failed; each attempt left one entry in the error log, in the order of
\* the attempts, and the exception raised is a ValueError holding a fixed
\* message and nothing else.
C6_FailsAfterAllMethodsLogged ==
    rpc = "raised" =>
        /\ ConfiguredMethods = Range(probed)
        /\ FailedMethods = probed
        /\ DOMAIN raised = {"type", "args"}
        /\ raised.type = "ValueError"
        /\ raised.args = <<"No valid connection method could be established.">>
        /\ CarriedFailures(raised) = << >>

C6_Witness ==
    /\ rpc = "raised"
    /\ Len(probed) = 2
    /\ Len(errlog) = 2
    /\ raised.type = "ValueError"

\* C7 as stated: when the driver probe and the sso probe have both failed,
\* username+password is probed before the call fails.
C7_BasicIsUniversalFallback ==
    (rpc = "raised" /\ {"driver", "sso"} \subseteq Range(FailedMethods)) =>
        "basic" \in Range(probed)

\* C7: username+password is probed only when the sso flag reads "no", and
\* then as the last method and never after an sso probe; a call in which
\* the sso probe failed fails without probing username+password, and a
\* call whose sso flag reads "no" does not fail before probing it.
C7_BasicOnlyWhenSsoIsNo ==
    /\ "basic" \in Range(probed) =>
          /\ FlagOf("sso") = TxtNo
          /\ "sso" \notin Range(probed)
          /\ probed[Len(probed)] = "basic"
    /\ (rpc = "raised" /\ "sso" \in Range(FailedMethods)) =>
          "basic" \notin Range(probed)
    /\ (rpc = "raised" /\ FlagOf("sso") = TxtNo) =>
          "basic" \in Range(FailedMethods)

C7_Witness ==
    /\ rpc = "raised"
    /\ FailedMethods = <<"driver", "sso">>
    /\ "basic" \notin Range(probed)

\* ------------------------------------------------------------------
\* Properties of insert_data_to_sql (checked under SpecLoad)
\* ------------------------------------------------------------------

CeilDiv(n, b) == (n + b - 1) \div b

RECURSIVE Concat(_)
Concat(seqs) == IF seqs = << >> THEN << >> ELSE Head(seqs) \o Concat(Tail(seqs))

\* the i-th of the consecutive chunks of b rows
Chunk(i) ==
    SubSeq(data_tuples, (i - 1) * batch_size + 1,
           Min(i * batch_size, Len(data_tuples)))

ChunkCount == CeilDiv(Len(data_tuples), batch_size)

\* C8: the statements issued are the consecutive chunks of the rows, each
\* of batch_size rows except the last, which has between one and
\* batch_size; the total logged after chunk i is the size of chunks 1..i;
\* one connection is opened; a call that completes has issued
\* ceil(n / batch_size) statements whose chunks concatenate to the rows.
C8_ConsecutiveChunks ==
    /\ Len(executed) <= ChunkCount
    /\ \A i \in 1..Len(executed) :
          /\ executed[i] = Chunk(i)
          /\ Len(executed[i]) >= 1
          /\ Len(executed[i]) <= batch_size
          /\ i < ChunkCount => Len(executed[i]) = batch_size
    /\ \A i \in 1..Len(progress) :
          progress[i] = Len(Concat(SubSeq(executed, 1, i)))
    /\ connections <= 1
    /\ lpc = "done" =>
          /\ connections = 1
          /\ Len(executed) = ChunkCount
          /\ Len(progress) = ChunkCount
          /\ Concat(executed) = data_tuples
          /\ load_table = data_tuples

C8_Witness ==
    /\ lpc = "done"
    /\ Len(data_tuples) = 5
    /\ batch_size = 2
    /\ [i \in 1..Len(executed) |-> Len(executed[i])] = <<2, 2, 1>>
    /\ progress = <<2, 4, 5>>

ChunkFailed == lpc = "raised" /\ executed # << >>

\* C9 as stated: when chunk k fails no later chunk is started, chunk k is
\* not retried, the rows of the chunks before k stay in the table, and the
\* error raised carries k and the count of rows committed before it.
C9_ErrorCarriesChunkAndCount ==
    ChunkFailed =>
        /\ \A i \in 1..Len(executed) : executed[i] = Chunk(i)
        /\ Len(progress) = Len(executed) - 1
        /\ load_table = Concat(SubSeq(executed, 1, Len(executed) - 1))
        /\ "chunk_index" \in DOMAIN load_error
        /\ load_error.chunk_index = Len(executed)
        /\ "rows_committed" \in DOMAIN load_error
        /\ load_error.rows_committed = inserted_rows

\* C9: when chunk k fails no later chunk is started, chunk k is not
\* retried, the rows of the chunks before k stay in the table, and the
\* error raised is the statement's own error, holding the statement and
\* the rows of chunk k and neither k nor the count of rows committed; that
\* count is inserted_rows, the last total logged.
C9_AbortKeepsPriorChunks ==
    ChunkFailed =>
        /\ \A i \in 1..Len(executed) : executed[i] = Chunk(i)
        /\ Len(progress) = Len(executed) - 1
        /\ load_table = Concat(SubSeq(executed, 1, Len(executed) - 1))
        /\ inserted_rows = Len(load_table)
        /\ progress # << >> => progress[Len(progress)] = inserted_rows
        /\ DOMAIN load_error = {"type", "statement", "params"}
        /\ load_error.statement = "INSERT"
        /\ load_error.params = executed[Len(executed)]

C9_Witness ==
    /\ ChunkFailed
    /\ Len(executed) = 2
    /\ Len(load_table) = 2
    /\ Len(data_tuples) = 5
    /\ load_error.params = Chunk(2)

\* ------------------------------------------------------------------
\* Failure handling of the backup and of the run (checked under Spec)
\* ------------------------------------------------------------------

Logged(msg) == \E i \in 1..Len(log) : log[i].msg = msg

\* the clear statement was issued and failed
ClearFailed == stmts # << >> /\ ~Logged("cleared backup")

\* the copy statement was issued and failed
CopyFailed == Logged("backup failed")

TableStmts == SelectSeq(stmts, LAMBDA st : st.target = "table")

\* C11: after the clear or the copy has failed the backup does not return
\* normally: its caller gets the error, so update_table is in its except
\* clause and has issued no statement on the production table.  It holds
\* for the clear and fails for the copy: backup_table logs the failure of
\* the copy and returns, and update_table goes on to the loop (see C15).
C11_BackupFailureReachesCaller ==
    (ClearFailed \/ CopyFailed) => (pc = "error" /\ TableStmts = << >>)

\* a statement on the production table failed and ended the run
ReconcileFailed == pc = "error" /\ TableStmts # << >>

\* the rows the log reports as applied, in log order
AppliedKeys ==
    LET hits == SelectSeq(log, LAMBDA e : e.msg \in {"updated", "inserted"})
    IN [i \in 1..Len(hits) |-> hits[i].key]

\* C12: when an update, insert or delete statement fails, it is the last
\* statement of the run: rows after the failing one got no statement and
\* the failed run deleted nothing; the rows before it stay as applied and
\* every other row of the table is as it was; the rows reported as applied
\* are exactly the rows processed before the failing one.
C12_FailureStopsRunKeepsApplied ==
    ReconcileFailed =>
        /\ stmts[Len(stmts)].target = "table"
        /\ log[Len(log)].msg = "run failed"
        /\ \A i \in 1..Len(TableStmts) :
              TableStmts[i].op \in {"UPDATE", "INSERT"} =>
                  \E k \in 1..Min(idx + 1, Len(data_df)) :
                      TableStmts[i].arg = data_df[k].id
        /\ Len(AppliedKeys) = idx
        /\ AppliedKeys = SubSeq(SnapshotIds, 1, idx)
        /\ \A k \in 1..idx : data_df[k] \in table
        /\ \A r \in table0 : r.id \notin Range(AppliedKeys) => r \in table
        /\ \A r \in table :
              r \in table0 \/ \E k \in 1..idx : r = data_df[k]
        /\ deleted = {}
        /\ ~Logged("deleted")

C12_Witness ==
    /\ ReconcileFailed
    /\ Len(data_df) = 3
    /\ idx = 2
    /\ Len(AppliedKeys) = 2
    /\ stmts[Len(stmts)].op \in {"UPDATE", "INSERT"}
    /\ table # table0
    /\ \E r \in table0 : r.id \notin CsvIds(data_df) /\ r \in table

\* C12 as stated: besides stopping the run and keeping the applied rows,
\* the report of the failure (the last entry of the log, written by the
\* handler of update_table) gives the count of rows already applied.
C12_FailureReportsAppliedCount ==
    /\ C12_FailureStopsRunKeepsApplied
    /\ ReconcileFailed =>
          /\ "applied" \in DOMAIN log[Len(log)]
          /\ log[Len(log)].applied = idx

\* C13: in every run the first statement clears the backup table and the
\* second copies the production table into it; every UPDATE, INSERT or
\* DELETE on the production table comes after both, and no statement on
\* the backup table comes later. When the copy is made the production
\* table is still as the run found it, so a completed copy holds the
\* table's contents from before reconciliation, whatever reconciliation
\* does afterwards.
C13_BackupStepsPrecedeReconcile ==
    /\ \A i \in 1..Len(stmts) :
          /\ stmts[i].target = "table" =>
                /\ i > 2
                /\ stmts[1] = Stmt("DELETE", "backup", << >>)
                /\ stmts[2] = Stmt("INSERT SELECT", "backup", << >>)
          /\ stmts[i].target = "backup" => i <= 2
    /\ (pc \in {"clear", "backup"} \/ (pc = "loop" /\ idx = 0)) =>
          table = table0
    /\ (BackupCompleted /\ Len(stmts) >= 2) => backup = table0

C13_Witness ==
    /\ pc = "done"
    /\ BackupCompleted
    /\ Len(stmts) > 3
    /\ stmts[3].target = "table"
    /\ table # table0
    /\ table0 # {}
    /\ backup = table0

\* the copy statement was executed and did not complete
CopyNotMade == Len(stmts) >= 2 /\ ~BackupCompleted

\* C14 as stated: after a failure of the clear or of the copy the failure
\* is logged and the run goes on to reconciliation, so it is never ended
\* by the backup failure with no statement on the production table.
C14_AnyBackupFailureContinues ==
    (ClearFailed \/ CopyNotMade) =>
        /\ Logged("query failed")
        /\ pc = "error" => TableStmts # << >>

\* C14: a failing copy is logged by backup_table and the run goes on: the
\* loop over the rows (or, for an empty file, the delete) is the next step,
\* and the run can only end in error later, on a statement on the
\* production table. A failing clear is logged and ends the run: no
\* statement on the production table is executed.
C14_OnlyCopyFailureContinues ==
    /\ CopyNotMade =>
          /\ Logged("query failed")
          /\ Logged("backup failed")
          /\ pc \in {"loop", "done", "error"}
          /\ pc = "error" => TableStmts # << >>
          /\ Len(stmts) = 2 => ENABLED (ReconcileRow \/ DeletePass)
    /\ ClearFailed =>
          /\ Logged("query failed")
          /\ Logged("run failed")
          /\ pc = "error"
          /\ ~ENABLED (BackupTable \/ ReconcileRow \/ DeletePass)
          /\ TableStmts = << >>

C14_Witness ==
    /\ CopyNotMade
    /\ pc = "done"
    /\ InsertedKeys # {}
    /\ UpdatedKeys # {}
    /\ deleted # {}
    /\ backup # table0

\* C15: whenever a run ends in error on a statement on the production
\* table, the backup table holds exactly the rows the production table
\* held when the run began, so that copying the backup back restores it.
\* It fails after a copy that backup_table logged and let pass: the
\* backup table has been cleared, the copy was never made, and the run
\* went on to change the production table.
C15_ErrorLeavesRestorableBackup ==
    ReconcileFailed => backup = table0

\* the statements of the loop over the rows, in the order issued
RowStmts == SelectSeq(TableStmts, LAMBDA st : st.op \in {"UPDATE", "INSERT"})
UpdateStmts == SelectSeq(TableStmts, LAMBDA st : st.op = "UPDATE")
DeleteStmts == SelectSeq(TableStmts, LAMBDA st : st.op = "DELETE")

\* C16: the UPDATE statements of a run are one per row of the file, in
\* the file's order, each filtered by its row's key, never more than the
\* rows taken so far; an INSERT comes only directly after the UPDATE of
\* the same row, and exactly for the rows whose key the table did not
\* hold (the UPDATE matched nothing); no statement is repeated; a run
\* issues at most one DELETE on the production table. When the run
\* completes, every row has exactly one outcome, updated or inserted, the
\* two counts add up to the number of rows of the file, and exactly one
\* DELETE was issued.
C16_OneUpdatePerRowInsertOnMiss ==
    /\ Len(UpdateStmts) <= Len(data_df)
    /\ Len(UpdateStmts) \in {idx, idx + 1}
    /\ \A i \in 1..Len(UpdateStmts) : UpdateStmts[i].arg = data_df[i].id
    /\ \A i \in 1..Len(RowStmts) :
          RowStmts[i].op = "INSERT" =>
              /\ i > 1
              /\ RowStmts[i - 1] = Stmt("UPDATE", "table", RowStmts[i].arg)
              /\ RowStmts[i].arg \notin KeysOf(table0)
    /\ \A k \in 1..idx :
          (data_df[k].id \notin KeysOf(table0)) <=>
              (\E i \in 1..Len(RowStmts) :
                  RowStmts[i] = Stmt("INSERT", "table", data_df[k].id))
    /\ \A i, j \in 1..Len(RowStmts) :
          (RowStmts[i] = RowStmts[j]) => i = j
    /\ Len(DeleteStmts) <= 1
    /\ pc = "done" =>
          /\ Len(UpdateStmts) = Len(data_df)
          /\ InsertedKeys \cap UpdatedKeys = {}
          /\ InsertedKeys \cup UpdatedKeys = CsvIds(data_df)
          /\ Len(LoggedKeys("inserted")) + Len(LoggedKeys("updated"))
                = Len(data_df)
          /\ Len(LoggedKeys("inserted")) = Len(RowStmts) - Len(UpdateStmts)
          /\ Len(DeleteStmts) = 1

C16_Witness ==
    /\ pc = "done"
    /\ Len(data_df) = 3
    /\ Len(LoggedKeys("inserted")) = 1
    /\ Len(LoggedKeys("updated")) = 2
    /\ Len(RowStmts) = 4
    /\ RowStmts[1].op = "UPDATE"
    /\ RowStmts[2].op = "UPDATE"
    /\ RowStmts[3].op = "UPDATE"
    /\ RowStmts[4].op = "INSERT"
    /\ Len(DeleteStmts) = 1

\* C17: for every file, the empty one included, once the loop over the
\* rows has finished the delete can complete the run and leave in the
\* production table no row whose key the file lacks. It fails for the
\* empty file: the id list written into the statement is empty, the text
\* "NOT IN ()" is not a statement the database accepts, and the run ends
\* in error with the table as it was.
C17_DeleteCompletesForEverySnapshot ==
    (pc = "loop" /\ ~RowsLeft) =>
        ENABLED (/\ DeletePass
                 /\ pc' = "done"
                 /\ KeysOf(table') \subseteq CsvIds(data_df))

====
